---- MODULE Spec2Model ----
(***************************************************************************)
(* Bouncing balls (src/main.c): main() initialises NUM_BALLS balls with    *)
(* random position and velocity, then runs the frame loop                  *)
(*   while (!WindowShouldClose()) { UpdateBall* ; BeginDrawing ;           *)
(*       ClearBackground ; DrawBall* ; DrawText ; EndDrawing }             *)
(* and finally CloseWindow(); return 0.                                    *)
(*                                                                         *)
(* Numbers.  Positions, velocities and the radius are C floats.  The       *)
(* initialiser produces whole pixels for the positions and k/100 for the   *)
(* speeds, so every value the program computes is, in exact arithmetic, a  *)
(* multiple of 1/100 pixel.  The model is fixed point: one unit is 1/100   *)
(* pixel (Scale units per pixel).  Rounding of binary floats is not        *)
(* modelled.                                                               *)
(*                                                                         *)
(* The colour of a ball is written once by the initialiser and read only   *)
(* by DrawCircleV; it takes no part in the motion and is left out.         *)
(***************************************************************************)
EXTENDS Integers, Sequences, FiniteSets, TLC

\* ------------------------------------------------------------------------
\* Program constants (src/main.c:5-11)
SCREEN_WIDTH == 800
SCREEN_HEIGHT == 450
BALL_RADIUS == 20
BALL_MIN_SPEED == 2
BALL_MAX_SPEED == 8
\* speeds are drawn as integers and divided by 100.0f (src/main.c:67)
Scale == 100

\* ------------------------------------------------------------------------
\* Bounds of the model
\* balls in the array (2500 in the source; balls do not interact)
NUM_BALLS == 1
\* frames the loop may start before the window must close
MaxFrames == 3
\* the random generator yields RandSpan + 1 outcomes of a range, taken
\* from its two ends
RandSpan == 1
\* for the function-level specification: offsets (in 1/100 pixel) around
\* each wall threshold from which inputs are drawn
StepSpan == 1

VARIABLES
    balls,      \* Ball balls[NUM_BALLS]: index -> [position, velocity, radius]
    pc,         \* position of main()
    i,          \* loop index of the for loop being executed
    frames,     \* number of loop iterations started
    trace,      \* collaborator/function calls since (and including) the last
                \* WindowShouldClose poll, in call order
    exit,       \* exit codes returned by main(): <<>> until it returns
    spawn       \* history: each ball as the initialiser produced it

vars == <<balls, pc, i, frames, trace, exit, spawn>>

Abs(n) == IF n < 0 THEN -n ELSE n

\* ------------------------------------------------------------------------
\* GetRandomValue(min, max): an integer of the inclusive range min..max.
\* The model keeps RandSpan + 1 outcomes (the whole range when it is no
\* larger): both ends of the range first, then the values next to them,
\* taken alternately from the upper and the lower end.
GetRandomValue(min, max) ==
    {v \in min..max : \/ v - min < (RandSpan + 1) \div 2
                      \/ max - v < (RandSpan + 2) \div 2}

\* ------------------------------------------------------------------------
\* Faulty variants of UpdateBall: each differs from UpdateBall by one slip
\* and breaks one of the properties below.
UpdateBallSlip(ball, screenWidth, screenHeight, slip) ==
    LET px == ball.position.x + ball.velocity.x
        py == ball.position.y + ball.velocity.y
        r  == ball.radius
        hitR == px + r >= screenWidth * Scale
        hitL == px - r <= 0
        hitX == CASE slip = "left wall only"  -> hitL
                  [] slip = "right wall only" -> hitR
                  [] OTHER -> hitR \/ hitL
        hitY == py + r >= screenHeight * Scale \/ py - r <= 0
        vx == IF hitX THEN ball.velocity.x * (-1) ELSE ball.velocity.x
        vy == IF hitY
              THEN IF slip = "assign" THEN -1 * Scale ELSE ball.velocity.y * (-1)
              ELSE ball.velocity.y
        low == IF slip = "clamp without radius"
               THEN screenHeight * Scale ELSE screenHeight * Scale - r
        cy == IF hitY /\ slip # "no clamp"
              THEN IF py + r >= screenHeight * Scale
                   THEN low
                   ELSE IF py - r <= 0 THEN r ELSE py
              ELSE py
        cx == IF hitX /\ slip = "clamp x"
              THEN IF hitR THEN screenWidth * Scale - r ELSE r
              ELSE px
    IN  [position |-> [x |-> cx, y |-> cy],
         velocity |-> [x |-> vx, y |-> vy],
         radius   |-> r]

\* the clamp of position.y is missing
UpdateBall_NoClamp(ball, screenWidth, screenHeight) ==
    UpdateBallSlip(ball, screenWidth, screenHeight, "no clamp")
\* only the left wall reflects
UpdateBall_LeftWallOnly(ball, screenWidth, screenHeight) ==
    UpdateBallSlip(ball, screenWidth, screenHeight, "left wall only")
\* only the right wall reflects
UpdateBall_RightWallOnly(ball, screenWidth, screenHeight) ==
    UpdateBallSlip(ball, screenWidth, screenHeight, "right wall only")
\* velocity.y = -1 written for velocity.y *= -1
UpdateBall_Assign(ball, screenWidth, screenHeight) ==
    UpdateBallSlip(ball, screenWidth, screenHeight, "assign")
\* position.y clamped to screenHeight, the radius forgotten
UpdateBall_ClampNoRadius(ball, screenWidth, screenHeight) ==
    UpdateBallSlip(ball, screenWidth, screenHeight, "clamp without radius")
\* position.x clamped like position.y
UpdateBall_ClampX(ball, screenWidth, screenHeight) ==
    UpdateBallSlip(ball, screenWidth, screenHeight, "clamp x")

\* ------------------------------------------------------------------------
\* void UpdateBall(Ball *ball, const int screenWidth, const int screenHeight)
\* The result is the ball as the call leaves it.
UpdateBall(ball, screenWidth, screenHeight) ==
    LET px == ball.position.x + ball.velocity.x
        py == ball.position.y + ball.velocity.y
        r  == ball.radius
        hitX == px + r >= screenWidth * Scale \/ px - r <= 0
        hitY == py + r >= screenHeight * Scale \/ py - r <= 0
        vx == IF hitX THEN ball.velocity.x * (-1) ELSE ball.velocity.x
        vy == IF hitY THEN ball.velocity.y * (-1) ELSE ball.velocity.y
        cy == IF hitY
              THEN IF py + r >= screenHeight * Scale
                   THEN screenHeight * Scale - r
                   ELSE IF py - r <= 0 THEN r ELSE py
              ELSE py
    IN  [position |-> [x |-> px, y |-> cy],
         velocity |-> [x |-> vx, y |-> vy],
         radius   |-> r]

\* ------------------------------------------------------------------------
\* Calls recorded in trace
CallPoll == <<"WindowShouldClose">>
CallUpdate(k) == <<"UpdateBall", k>>
CallBegin == <<"BeginDrawing">>
CallClear == <<"ClearBackground">>
CallDraw(k) == <<"DrawBall", k>>
CallText == <<"DrawText">>
CallEnd == <<"EndDrawing">>
CallClose == <<"CloseWindow">>

\* ------------------------------------------------------------------------
\* main(): state after InitWindow and SetTargetFPS, before the first ball
\* is initialised.  balls[] is an uninitialised array: no element exists in
\* the model until the initialiser has written it.
Init ==
    /\ balls = <<>>
    /\ spawn = <<>>
    /\ pc = "init"
    /\ i = 0
    /\ frames = 0
    /\ trace = <<>>
    /\ exit = <<>>

\* faulty variant: positions drawn over the whole screen, the radius
\* margin forgotten
InitBall_FullScreen ==
    /\ pc = "init"
    /\ i < NUM_BALLS
    /\ \E px \in GetRandomValue(0, SCREEN_WIDTH),
          py \in GetRandomValue(0, SCREEN_HEIGHT),
          sx \in GetRandomValue(BALL_MIN_SPEED * 100, BALL_MAX_SPEED * 100),
          sy \in GetRandomValue(BALL_MIN_SPEED * 100, BALL_MAX_SPEED * 100),
          nx \in GetRandomValue(0, 1),
          ny \in GetRandomValue(0, 1) :
          LET speedX == IF nx # 0 THEN sx * (-1) ELSE sx
              speedY == IF ny # 0 THEN sy * (-1) ELSE sy
              ball == [position |-> [x |-> px * Scale, y |-> py * Scale],
                       velocity |-> [x |-> speedX, y |-> speedY],
                       radius   |-> BALL_RADIUS * Scale]
          IN  /\ balls' = [k \in 0..i |-> IF k = i THEN ball ELSE balls[k]]
              /\ spawn' = [k \in 0..i |-> IF k = i THEN ball ELSE spawn[k]]
    /\ i' = IF i + 1 < NUM_BALLS THEN i + 1 ELSE 0
    /\ pc' = IF i + 1 < NUM_BALLS THEN "init" ELSE "poll"
    /\ UNCHANGED <<frames, trace, exit>>

\* one iteration of the initialisation loop (src/main.c:62-79)
InitBall ==
    /\ pc = "init"
    /\ i < NUM_BALLS
    /\ \E px \in GetRandomValue(BALL_RADIUS, SCREEN_WIDTH - BALL_RADIUS),
          py \in GetRandomValue(BALL_RADIUS, SCREEN_HEIGHT - BALL_RADIUS),
          sx \in GetRandomValue(BALL_MIN_SPEED * 100, BALL_MAX_SPEED * 100),
          sy \in GetRandomValue(BALL_MIN_SPEED * 100, BALL_MAX_SPEED * 100),
          nx \in GetRandomValue(0, 1),
          ny \in GetRandomValue(0, 1) :
          LET speedX == IF nx # 0 THEN sx * (-1) ELSE sx
              speedY == IF ny # 0 THEN sy * (-1) ELSE sy
              ball == [position |-> [x |-> px * Scale, y |-> py * Scale],
                       velocity |-> [x |-> speedX, y |-> speedY],
                       radius   |-> BALL_RADIUS * Scale]
          IN  /\ balls' = [k \in 0..i |-> IF k = i THEN ball ELSE balls[k]]
              /\ spawn' = [k \in 0..i |-> IF k = i THEN ball ELSE spawn[k]]
    /\ i' = IF i + 1 < NUM_BALLS THEN i + 1 ELSE 0
    /\ pc' = IF i + 1 < NUM_BALLS THEN "init" ELSE "poll"
    /\ UNCHANGED <<frames, trace, exit>>

\* while (!WindowShouldClose()): the collaborator answers either way; the
\* model makes it answer true once MaxFrames frames have been started.
Poll ==
    /\ pc = "poll"
    /\ \E close \in (IF frames < MaxFrames THEN BOOLEAN ELSE {TRUE}) :
          IF close
          THEN /\ pc' = "closing"
               /\ UNCHANGED frames
          ELSE /\ pc' = "update"
               /\ frames' = frames + 1
    /\ trace' = <<CallPoll>>
    /\ i' = 0
    /\ UNCHANGED <<balls, exit, spawn>>

\* one iteration of the update loop (src/main.c:84-87)
UpdateStep ==
    /\ pc = "update"
    /\ i < NUM_BALLS
    /\ balls' = [balls EXCEPT ![i] = UpdateBall(@, SCREEN_WIDTH, SCREEN_HEIGHT)]
    /\ trace' = Append(trace, CallUpdate(i))
    /\ i' = IF i + 1 < NUM_BALLS THEN i + 1 ELSE 0
    /\ pc' = IF i + 1 < NUM_BALLS THEN "update" ELSE "begin"
    /\ UNCHANGED <<frames, exit, spawn>>

BeginDrawingStep ==
    /\ pc = "begin"
    /\ trace' = Append(trace, CallBegin)
    /\ pc' = "clear"
    /\ UNCHANGED <<balls, i, frames, exit, spawn>>

ClearBackgroundStep ==
    /\ pc = "clear"
    /\ trace' = Append(trace, CallClear)
    /\ pc' = "draw"
    /\ i' = 0
    /\ UNCHANGED <<balls, frames, exit, spawn>>

\* one iteration of the draw loop (src/main.c:93-96)
DrawStep ==
    /\ pc = "draw"
    /\ i < NUM_BALLS
    /\ trace' = Append(trace, CallDraw(i))
    /\ i' = IF i + 1 < NUM_BALLS THEN i + 1 ELSE 0
    /\ pc' = IF i + 1 < NUM_BALLS THEN "draw" ELSE "text"
    /\ UNCHANGED <<balls, frames, exit, spawn>>

DrawTextStep ==
    /\ pc = "text"
    /\ trace' = Append(trace, CallText)
    /\ pc' = "end"
    /\ UNCHANGED <<balls, i, frames, exit, spawn>>

\* faulty variant: the frame is left without calling EndDrawing
EndDrawingStep_Missing ==
    /\ pc = "end"
    /\ pc' = "poll"
    /\ UNCHANGED <<balls, i, frames, trace, exit, spawn>>

EndDrawingStep ==
    /\ pc = "end"
    /\ trace' = Append(trace, CallEnd)
    /\ pc' = "poll"
    /\ UNCHANGED <<balls, i, frames, exit, spawn>>

\* faulty variant: main returns without calling CloseWindow
CloseWindowStep_Missing ==
    /\ pc = "closing"
    /\ pc' = "return"
    /\ UNCHANGED <<balls, i, frames, trace, exit, spawn>>

CloseWindowStep ==
    /\ pc = "closing"
    /\ trace' = Append(trace, CallClose)
    /\ pc' = "return"
    /\ UNCHANGED <<balls, i, frames, exit, spawn>>

\* return 0;
Return ==
    /\ pc = "return"
    /\ exit' = Append(exit, 0)
    /\ pc' = "done"
    /\ UNCHANGED <<balls, i, frames, trace, spawn>>

Next ==
    \/ InitBall
    \/ Poll
    \/ UpdateStep
    \/ BeginDrawingStep
    \/ ClearBackgroundStep
    \/ DrawStep
    \/ DrawTextStep
    \/ EndDrawingStep
    \/ CloseWindowStep
    \/ Return

Spec == Init /\ [][Next]_vars

\* ------------------------------------------------------------------------
\* UpdateBall as a function: one ball in an arbitrary state (not only the
\* states main() reaches), stepped repeatedly.  Inputs lie around the four
\* wall thresholds, plus the two worked examples of the specification
\* (x = 5, vx = -3 and y = 435, vy = 4).
StepCoords(limit) ==
    {5 * Scale, (limit - 15) * Scale}
        \cup {BALL_RADIUS * Scale + d : d \in -StepSpan..StepSpan}
        \cup {(limit - BALL_RADIUS) * Scale + d : d \in -StepSpan..StepSpan}

StepSpeeds == {-3 * Scale, 4 * Scale} \cup (-StepSpan..StepSpan)

StepBalls ==
    {[position |-> [x |-> px, y |-> py],
      velocity |-> [x |-> vx, y |-> vy],
      radius   |-> BALL_RADIUS * Scale] :
        px \in StepCoords(SCREEN_WIDTH), py \in StepCoords(SCREEN_HEIGHT),
        vx \in StepSpeeds, vy \in StepSpeeds}

InitStep ==
    /\ balls \in {[k \in {0} |-> b] : b \in StepBalls}
    /\ spawn = balls
    /\ pc = "unit"
    /\ i = 0
    /\ frames = 0
    /\ trace = <<>>
    /\ exit = <<>>

\* one call UpdateBall(&balls[0], SCREEN_WIDTH, SCREEN_HEIGHT)
StepBall ==
    /\ pc = "unit"
    /\ frames < MaxFrames
    /\ balls' = [balls EXCEPT ![0] = UpdateBall(@, SCREEN_WIDTH, SCREEN_HEIGHT)]
    /\ frames' = frames + 1
    /\ trace' = <<CallUpdate(0)>>
    /\ UNCHANGED <<pc, i, exit, spawn>>

NextStep == StepBall

SpecStep == InitStep /\ [][NextStep]_vars

\* ========================================================================
\* Properties
\* ========================================================================
\* Pixel limits in model units
WidthU == SCREEN_WIDTH * Scale
HeightU == SCREEN_HEIGHT * Scale

\* UpdateBall has run on ball k at least once
Updated(k) ==
    /\ k \in DOMAIN balls
    /\ frames >= 1
    /\ frames = 1 => ~(pc = "update" /\ k >= i)

\* the step is a call of UpdateBall on ball k made by the frame loop
UpdateOf(k) == pc = "update" /\ i = k /\ k \in DOMAIN balls

IsPrefix(s, t) == Len(s) <= Len(t) /\ s = SubSeq(t, 1, Len(s))

\* the calls of one complete frame, in order
FullFrame ==
    <<CallPoll>>
        \o [k \in 1..NUM_BALLS |-> CallUpdate(k - 1)]
        \o <<CallBegin, CallClear>>
        \o [k \in 1..NUM_BALLS |-> CallDraw(k - 1)]
        \o <<CallText, CallEnd>>

Closed == pc \in {"closing", "return", "done"}

\* ------------------------------------------------------------------------
\* C1  Vertical containment: once UpdateBall has run on a ball, in every
\* later state radius <= position.y <= screenHeight - radius.
C1_VerticalContainment ==
    \A k \in DOMAIN balls :
        Updated(k) =>
            /\ balls[k].radius <= balls[k].position.y
            /\ balls[k].position.y <= HeightU - balls[k].radius

\* a ball that started on the lower bound moving down was clamped and turned
C1_Witness ==
    \E k \in DOMAIN balls :
        /\ Updated(k)
        /\ frames = 1
        /\ spawn[k].velocity.y > 0
        /\ balls[k].position.y = HeightU - balls[k].radius
        /\ balls[k].velocity.y < 0

\* ------------------------------------------------------------------------
\* C2 (as stated)  Horizontal containment: once UpdateBall has run on a
\* ball, radius <= position.x <= screenWidth - radius.
C2_HorizontalContainment ==
    \A k \in DOMAIN balls :
        Updated(k) =>
            /\ balls[k].radius <= balls[k].position.x
            /\ balls[k].position.x <= WidthU - balls[k].radius

\* C2 (amended)  Once UpdateBall has run on a ball, position.x lies within
\* [radius - BALL_MAX_SPEED, screenWidth - radius + BALL_MAX_SPEED], that
\* is [12, 788]: the horizontal axis is not clamped.
C2_HorizontalWithinMaxSpeed ==
    \A k \in DOMAIN balls :
        Updated(k) =>
            /\ balls[k].radius - BALL_MAX_SPEED * Scale <= balls[k].position.x
            /\ balls[k].position.x
                   <= WidthU - balls[k].radius + BALL_MAX_SPEED * Scale

\* a ball 8 pixels past the right wall
C2_Witness ==
    \E k \in DOMAIN balls :
        /\ Updated(k)
        /\ balls[k].position.x = WidthU - balls[k].radius + BALL_MAX_SPEED * Scale

\* ------------------------------------------------------------------------
\* C3  Speed conservation: in every state each velocity component of each
\* ball has the magnitude the initialiser gave it, and so has
\* velocity.x^2 + velocity.y^2.
C3_SpeedConserved ==
    \A k \in DOMAIN balls :
        /\ Abs(balls[k].velocity.x) = Abs(spawn[k].velocity.x)
        /\ Abs(balls[k].velocity.y) = Abs(spawn[k].velocity.y)
        /\ balls[k].velocity.x * balls[k].velocity.x
               + balls[k].velocity.y * balls[k].velocity.y
           = spawn[k].velocity.x * spawn[k].velocity.x
               + spawn[k].velocity.y * spawn[k].velocity.y

\* both axes reflected in the same (first) step
C3_Witness ==
    \E k \in DOMAIN balls :
        /\ Updated(k)
        /\ frames = 1
        /\ balls[k].velocity.x = -spawn[k].velocity.x
        /\ balls[k].velocity.y = -spawn[k].velocity.y

\* ------------------------------------------------------------------------
\* C5  Initialisation bounds: before the first frame every initialised ball
\* has position.x in [20, 780] and position.y in [20, 430], and all
\* NUM_BALLS balls are initialised when the loop is first reached.
C5_InitBounds ==
    frames = 0 =>
        /\ \A k \in DOMAIN balls :
              /\ BALL_RADIUS * Scale <= balls[k].position.x
              /\ balls[k].position.x <= (SCREEN_WIDTH - BALL_RADIUS) * Scale
              /\ BALL_RADIUS * Scale <= balls[k].position.y
              /\ balls[k].position.y <= (SCREEN_HEIGHT - BALL_RADIUS) * Scale
        /\ pc # "init" => DOMAIN balls = 0..(NUM_BALLS - 1)

\* the last ball sits in the bottom right corner of the allowed area
C5_Witness ==
    /\ pc = "poll"
    /\ frames = 0
    /\ balls[NUM_BALLS - 1].position.x = (SCREEN_WIDTH - BALL_RADIUS) * Scale
    /\ balls[NUM_BALLS - 1].position.y = (SCREEN_HEIGHT - BALL_RADIUS) * Scale

\* ------------------------------------------------------------------------
\* the x test of UpdateBall holds of position px
HitX(px, r) == px + r >= WidthU \/ px - r <= 0

\* C8  Bounded horizontal overshoot: every ball always has position.x within
\* [radius - |velocity.x|, screenWidth - radius + |velocity.x|], and a ball
\* that enters a frame strictly past a horizontal wall leaves that frame's
\* UpdateBall within [radius, screenWidth - radius].
C8_BoundedOvershoot ==
    /\ [](\A k \in DOMAIN balls :
            /\ balls[k].radius - Abs(balls[k].velocity.x) <= balls[k].position.x
            /\ balls[k].position.x
                   <= WidthU - balls[k].radius + Abs(balls[k].velocity.x))
    /\ [][\A k \in DOMAIN balls :
            (/\ UpdateOf(k)
             /\ \/ balls[k].position.x < balls[k].radius
                \/ balls[k].position.x > WidthU - balls[k].radius)
            => /\ balls[k].radius <= balls'[k].position.x
               /\ balls'[k].position.x <= WidthU - balls[k].radius]_vars

\* a ball that was strictly past the right wall one frame earlier is back
\* on the boundary of the allowed interval
C8_Witness ==
    \E k \in DOMAIN balls :
        /\ Updated(k)
        /\ frames = 2
        /\ pc = "begin"
        /\ spawn[k].velocity.x > 0
        /\ balls[k].position.x = WidthU - balls[k].radius

\* ------------------------------------------------------------------------
\* C10  Horizontal reflections point inward: whenever a call of UpdateBall
\* negates velocity.x, the new velocity.x points away from the wall whose
\* test triggered (positive at the left wall, negative at the right wall),
\* and the ball's velocity.x was not negated by the call of the frame before
\* (after a call, velocity.x was negated exactly when the x test holds of
\* the position the call left).
C10_ReflectionsPointInward ==
    [][\A k \in DOMAIN balls :
        (/\ UpdateOf(k)
         /\ balls'[k].velocity.x = -balls[k].velocity.x)
        => /\ balls'[k].position.x - balls[k].radius <= 0
                  => balls'[k].velocity.x > 0
           /\ balls'[k].position.x + balls[k].radius >= WidthU
                  => balls'[k].velocity.x < 0
           /\ ~(Updated(k) /\ HitX(balls[k].position.x, balls[k].radius))]_vars

\* ------------------------------------------------------------------------
\* C4  Close is final: once the poll has answered true, main stays in its
\* closing part, no ball changes and the only call made after the poll is
\* one CloseWindow; main can always go on until it has returned, and it
\* returns 0 and nothing else.
C4_CloseIsFinal ==
    /\ [][Closed => (Closed' /\ balls' = balls /\ frames' = frames)]_vars
    /\ [](Closed => IsPrefix(trace, <<CallPoll, CallClose>>))
    /\ [](pc \in {"return", "done"} => trace = <<CallPoll, CallClose>>)
    /\ [](Closed => (pc = "done" \/ ENABLED Next))
    /\ [](exit = IF pc = "done" THEN <<0>> ELSE <<>>)

\* main has returned after at least one frame was drawn
C4_Witness ==
    /\ pc = "done"
    /\ frames >= 1
    /\ exit = <<0>>
    /\ trace = <<CallPoll, CallClose>>

VerticalStepOk(before, after) ==
    LET y1 == before.position.y + before.velocity.y
        r  == before.radius
    IN  IF y1 + r >= HeightU
        THEN /\ after.position.y = HeightU - r
             /\ after.velocity.y = -before.velocity.y
        ELSE IF y1 - r <= 0
        THEN /\ after.position.y = r
             /\ after.velocity.y = -before.velocity.y
        ELSE /\ after.position.y = y1
             /\ after.velocity.y = before.velocity.y

HorizontalStepOk(before, after) ==
    LET x1 == before.position.x + before.velocity.x
        r  == before.radius
    IN  /\ after.position.x = x1
        /\ IF x1 + r >= WidthU \/ x1 - r <= 0
           THEN after.velocity.x = -before.velocity.x
           ELSE after.velocity.x = before.velocity.x

\* C6  Vertical clamp correctness: every call of UpdateBall, on any ball
\* state, clamps position.y to screenHeight - radius (lower bound first) or
\* to radius and negates velocity.y when the moved ball touches or passes
\* the bound, and otherwise only moves the ball.
C6_VerticalClamp ==
    [][pc = "unit" => VerticalStepOk(balls[0], balls'[0])]_vars

\* the worked example: y = 435, vy = 4 gives y = 430, vy = -4
C6_Witness ==
    /\ pc = "unit"
    /\ frames = 1
    /\ spawn[0].position.y = 435 * Scale
    /\ spawn[0].velocity.y = 4 * Scale
    /\ balls[0].position.y = 430 * Scale
    /\ balls[0].velocity.y = -4 * Scale

\* C7  Horizontal reflection correctness: every call of UpdateBall, on any
\* ball state, leaves position.x = old position.x + old velocity.x, and
\* negates velocity.x exactly when that position touches or passes a wall.
C7_HorizontalReflection ==
    [][pc = "unit" => HorizontalStepOk(balls[0], balls'[0])]_vars

\* the worked example: x = 5, vx = -3 gives x = 2, vx = +3
C7_Witness ==
    /\ pc = "unit"
    /\ frames = 1
    /\ spawn[0].position.x = 5 * Scale
    /\ spawn[0].velocity.x = -3 * Scale
    /\ balls[0].position.x = 2 * Scale
    /\ balls[0].velocity.x = 3 * Scale

====
